---- MODULE Spec2Model ----
(***************************************************************************)
(* Contract analyzer (src/app.py): a Streamlit script that is re-executed  *)
(* from top to bottom on every user interaction.  The model has one action *)
(* per interaction; each action is one complete execution of the script    *)
(* (two for the reset button, which ends in st.rerun()).                   *)
(*                                                                         *)
(* Texts are sequences of characters.  A JSON document is written          *)
(* "{" body "}" where the body is one token standing for the members of    *)
(* the object ("B1", "B2", ...); everything else is character by           *)
(* character as in the source (fences are three backquotes, the tag is     *)
(* the four letters j s o n, indices are 0-based as in Python).            *)
(***************************************************************************)
EXTENDS Integers, Sequences, FiniteSets

VARIABLES
    api_key,            \* sidebar text input (line 34): "" or a key
    uploaded_file,      \* file uploader widget (line 148): NoFile or a file
    manual_text,        \* text area widget (line 183): "" or pasted text
    severity_filter,    \* multiselect widget (line 273)
    analysis_results,   \* st.session_state.analysis_results
    uploaded_file_name, \* st.session_state.uploaded_file_name
    analysis_date,      \* st.session_state.analysis_date (Absent until set)
    now,                \* the clock read by datetime.now()
    view,               \* what the last execution of the script rendered
    lastEvent,          \* the interaction that caused the last execution
    completion,         \* extractor in isolation: message.content[0].text
    response_text,      \* extractor in isolation: the variable response_text
    extractor_pc        \* extractor in isolation: "received" or "extracted"

vars == <<api_key, uploaded_file, manual_text, severity_filter,
          analysis_results, uploaded_file_name, analysis_date, now,
          view, lastEvent, completion, response_text, extractor_pc>>

sessionVars == <<api_key, uploaded_file, manual_text, severity_filter,
                 analysis_results, uploaded_file_name, analysis_date, now,
                 view, lastEvent>>

extractorVars == <<completion, response_text, extractor_pc>>

(***************************************************************************)
(* Bounds of the model.                                                    *)
(***************************************************************************)
\* completion texts are concatenations of at most MaxPieces pieces
MaxPieces == 4
\* findings lists of the rendering specification have at most MaxFindings
MaxFindings == 2
\* summary counts reported by the service
MaxCritical == 2
MaxWarning == 10
\* datetime.now() is read at most MaxClock times
MaxClock == 2

(***************************************************************************)
(* Python values.                                                          *)
(***************************************************************************)
\* Python objects are records tagged with their type.
None == [type |-> "NoneType"]
Str(s) == [type |-> "str", value |-> s]
\* a local name that no statement of this execution has bound
Unbound == [type |-> "unbound"]
\* st.file_uploader returned None
NoFile == [type |-> "NoneType"]
\* st.session_state.analysis_date before its first assignment
Absent == [assigned |-> FALSE]
Timestamp(t) == [assigned |-> TRUE, at |-> t]

\* bool(v)
Truthy(v) ==
    CASE v.type = "NoneType" -> FALSE
      [] v.type = "str"      -> v.value # ""
      [] v.type = "dict"     -> v.keys # {}
      [] OTHER               -> TRUE

Max(a, b) == IF a > b THEN a ELSE b
Min(a, b) == IF a < b THEN a ELSE b

(***************************************************************************)
(* Strings: str.find, slicing, str.strip, the "in" operator.               *)
(***************************************************************************)
Whitespace == {" "}

\* the backquote character U+0060 (a string of the module cannot hold it)
Backquote == "bq"

Fence == <<Backquote, Backquote, Backquote>>
TaggedFence == Fence \o <<"j", "s", "o", "n">>

\* s[i:i+len(pat)] == pat, i 0-based
MatchesAt(s, pat, i) ==
    /\ i >= 0
    /\ i + Len(pat) <= Len(s)
    /\ \A k \in 1..Len(pat) : s[i + k] = pat[k]

\* str.find(pat, start): scan left to right, -1 when there is no match
RECURSIVE FindFrom(_, _, _)
FindFrom(s, pat, start) ==
    IF start + Len(pat) > Len(s) THEN -1
    ELSE IF MatchesAt(s, pat, start) THEN start
    ELSE FindFrom(s, pat, start + 1)

Find(s, pat, start) == FindFrom(s, pat, Max(start, 0))

\* pat in s
Contains(s, pat) == Find(s, pat, 0) # -1

\* s[start:end] with the Python treatment of negative and out-of-range indices
Slice(s, start, end) ==
    LET n  == Len(s)
        lo == IF start < 0 THEN Max(start + n, 0) ELSE Min(start, n)
        hi == IF end < 0 THEN Max(end + n, 0) ELSE Min(end, n)
    IN  IF lo >= hi THEN <<>> ELSE SubSeq(s, lo + 1, hi)

RECURSIVE LStrip(_)
LStrip(s) ==
    IF s = <<>> THEN s
    ELSE IF Head(s) \in Whitespace THEN LStrip(Tail(s))
    ELSE s

RECURSIVE RStrip(_)
RStrip(s) ==
    IF s = <<>> THEN s
    ELSE IF s[Len(s)] \in Whitespace THEN RStrip(SubSeq(s, 1, Len(s) - 1))
    ELSE s

Strip(s) == RStrip(LStrip(s))

(***************************************************************************)
(* Response extraction, lines 117-128 of analyze_contract_with_claude.     *)
(***************************************************************************)
\* mutant: the bare fence is looked for first
ExtractCandidate_BareFirst(text) ==
    IF Contains(text, Fence) THEN
        LET json_start == Find(text, Fence, 0) + 3
            json_end   == Find(text, Fence, json_start)
        IN  Strip(Slice(text, json_start, json_end))
    ELSE text

ExtractCandidate(text) ==
    IF Contains(text, TaggedFence) THEN
        LET json_start == Find(text, TaggedFence, 0) + 7
            json_end   == Find(text, Fence, json_start)
        IN  Strip(Slice(text, json_start, json_end))
    ELSE IF Contains(text, Fence) THEN
        LET json_start == Find(text, Fence, 0) + 3
            json_end   == Find(text, Fence, json_start)
        IN  Strip(Slice(text, json_start, json_end))
    ELSE text

(***************************************************************************)
(* Analysis results.  The prompt (lines 77-95) asks for an object with a   *)
(* "summary" of counts and a list of "findings"; nothing checks that the   *)
(* service complied.  A finding is shown by its severity and its issue     *)
(* title; its other fields are carried along verbatim and left out here.   *)
(***************************************************************************)
Severities == {"critical", "warning", "informational"}
\* the service may return a severity outside the three tiers
AnySeverity == Severities \cup {"minor"}

Finding(sev, title) == [severity |-> sev, issue |-> title]

Summary(c, w, i, total) ==
    [total_issues |-> total, critical |-> c, warning |-> w, informational |-> i]

Result(summary, findings) ==
    [type |-> "dict", keys |-> {"summary", "findings"},
     summary |-> summary, findings |-> findings]

\* the parsed object of "{}"
EmptyDict == [type |-> "dict", keys |-> {}]

\* members of the JSON objects the service returns in the session
BodyTokens == {"B1", "B2", "B3"}

BodyValue(b) ==
    CASE b = "B1" -> Result(Summary(1, 0, 0, 1), <<Finding("critical", 1)>>)
      [] b = "B2" -> Result(Summary(0, 4, 1, 5),
                            <<Finding("warning", 1), Finding("informational", 2),
                              Finding("critical", 3), Finding("warning", 4)>>)
      \* valid JSON without the "summary" key
      [] b = "B3" -> [type |-> "dict", keys |-> {"findings"},
                      findings |-> <<Finding("warning", 1)>>]

\* json.loads (line 130): whitespace around the tokens is insignificant;
\* anything that is not a document raises.
json_loads(text) ==
    LET tokens == SelectSeq(text, LAMBDA ch : ch \notin Whitespace)
    IN  IF Len(tokens) = 3 /\ tokens[1] = "{" /\ tokens[3] = "}"
           /\ tokens[2] \in BodyTokens
        THEN [raised |-> FALSE, value |-> BodyValue(tokens[2])]
        ELSE IF tokens = <<"{", "}">>
        THEN [raised |-> FALSE, value |-> EmptyDict]
        ELSE [raised |-> TRUE]

(***************************************************************************)
(* Completion texts: concatenations of pieces.                             *)
(***************************************************************************)
Doc(b) == <<"{", b, "}">>

Pieces ==
    {TaggedFence, Fence, <<" ">>, <<"x">>, <<"{", "}">>}
        \cup {Doc(b) : b \in BodyTokens}

RECURSIVE TextsOfPieces(_)
TextsOfPieces(n) ==
    IF n = 0 THEN {<<>>}
    ELSE {p \o t : p \in Pieces, t \in TextsOfPieces(n - 1)}

Texts == UNION {TextsOfPieces(n) : n \in 0..MaxPieces}

\* what client.messages.create does (lines 104-118): raise, or return a text
ServiceBehaviours ==
    {[raises |-> TRUE]} \cup {[raises |-> FALSE, text |-> t] : t \in Texts}

(***************************************************************************)
(* analyze_contract_with_claude, lines 101-134.  st_error is the kind of   *)
(* exception whose message st.error shows, "none" if none was raised.      *)
(***************************************************************************)
analyze_contract_with_claude(service) ==
    IF service.raises THEN [results |-> None, st_error |-> "service"]
    ELSE LET parsed == json_loads(ExtractCandidate(service.text))
         IN  IF parsed.raised
             THEN [results |-> None, st_error |-> "json"]
             ELSE [results |-> parsed.value, st_error |-> "none"]

\* every return of the call, over the behaviours of the service
AnalysisReturns ==
    {analyze_contract_with_claude(sv) : sv \in ServiceBehaviours}

(***************************************************************************)
(* Uploaded files (st.file_uploader, lines 148-152): name, MIME type and   *)
(* bytes.  decode('utf-8') returns the text or raises.                     *)
(***************************************************************************)
Utf8(text) == [decodable |-> TRUE, text |-> text]
NotUtf8 == [decodable |-> FALSE]

UploadedFile(name, mime, bytes) ==
    [type |-> "UploadedFile", name |-> name, mime |-> mime, bytes |-> bytes]

Files ==
    { UploadedFile("contract.txt", "text/plain", Utf8("AGREEMENT")),
      UploadedFile("empty.txt", "text/plain", Utf8("")),
      UploadedFile("latin1.txt", "text/plain", NotUtf8),
      UploadedFile("contract.pdf", "application/pdf", NotUtf8),
      UploadedFile("contract.docx", "application/vnd.openxmlformats-officedocument.wordprocessingml.document", NotUtf8),
      UploadedFile("legacy.doc", "application/octet-stream", NotUtf8),
      UploadedFile("notes.txt", "application/octet-stream", Utf8("SUBCONTRACT")) }

\* "word" in uploaded_file.type
MimeHasWord(mime) ==
    mime \in {"application/msword",
              "application/vnd.openxmlformats-officedocument.wordprocessingml.document"}

\* uploaded_file.name.endswith(('.doc', '.docx'))
NameEndsWithDoc(name) == name \in {"legacy.doc", "contract.docx"}

\* lines 166-179: the text read from the file and the message shown
ReadFile(file) ==
    LET decoded == IF file.bytes.decodable
                   THEN [contract_text |-> Str(file.bytes.text), message |-> "none"]
                   ELSE [contract_text |-> None, message |-> "read_error"]
    IN  IF file.mime = "text/plain" THEN decoded
        ELSE IF file.mime = "application/pdf"
        THEN [contract_text |-> None, message |-> "pdf_warning"]
        ELSE IF MimeHasWord(file.mime) \/ NameEndsWithDoc(file.name)
        THEN [contract_text |-> None, message |-> "word_warning"]
        ELSE decoded

\* lines 154-189: contract_text after the upload block and the paste block
ContractText(file, manual) ==
    IF manual # "" THEN Str(manual)
    ELSE IF file # NoFile THEN ReadFile(file).contract_text
    ELSE Unbound

\* mutant: only the API key is looked at
AnalyzeDisabled_KeyOnly(key, file, manual) == key = ""

\* line 200: the disabled argument of the analyze button
AnalyzeDisabled(key, file, manual) ==
    key = "" \/ (file = NoFile /\ manual = "")

\* line 208: 'contract_text' in locals() and contract_text
HasContractText(contract_text) ==
    contract_text # Unbound /\ Truthy(contract_text)

(***************************************************************************)
(* Display block, lines 219-371.                                           *)
(***************************************************************************)
\* mutant: the warning threshold is reached at 3
RiskBanner_AtThreshold(summary) ==
    IF summary.critical > 0 THEN "high"
    ELSE IF summary.warning >= 3 THEN "moderate"
    ELSE "low"

\* lines 258-263
RiskBanner(summary) ==
    IF summary.critical > 0 THEN "high"
    ELSE IF summary.warning > 3 THEN "moderate"
    ELSE "low"

\* mutant: the findings are grouped by severity, critical first
filtered_findings_Grouped(results, filter) ==
    SelectSeq(results.findings,
              LAMBDA f : f.severity \in filter /\ f.severity = "critical")
    \o SelectSeq(results.findings,
                 LAMBDA f : f.severity \in filter /\ f.severity # "critical")

\* line 280
filtered_findings(results, filter) ==
    SelectSeq(results.findings, LAMBDA f : f.severity \in filter)

\* enumerate(xs, start)
Enumerate(xs, start) == [i \in 1..Len(xs) |-> <<start + i - 1, xs[i]>>]

\* str.upper() on the severities
Upper(sev) ==
    CASE sev = "critical"      -> "CRITICAL"
      [] sev = "warning"       -> "WARNING"
      [] sev = "informational" -> "INFORMATIONAL"
      [] sev = "minor"         -> "MINOR"

\* lines 335-358: the header, the summary block, one numbered entry per
\* finding
Report(results, file_name) ==
    LET numbered == Enumerate(results.findings, 1)
    IN  [file    |-> IF Truthy(file_name) THEN file_name.value ELSE "Manual Input",
         summary |-> results.summary,
         entries |-> [i \in 1..Len(numbered) |->
                         [idx      |-> numbered[i][1],
                          severity |-> Upper(numbered[i][2].severity),
                          issue    |-> numbered[i][2].issue]]]

\* line 325: json.dumps(results, indent=2) writes every key of the object
JsonExport(results) ==
    [indent |-> 2, summary |-> results.summary, findings |-> results.findings]

DefaultFilter == {"critical", "warning", "informational"}

\* Nothing of the display block is on the page.
NoDisplay ==
    [shown |-> FALSE, crashed |-> FALSE, banners |-> <<>>, findings |-> <<>>,
     exports |-> FALSE, reset_button |-> FALSE, filter_widget |-> FALSE]

\* mutant: the exports are built from the findings on the page
Display_ExportsFiltered(results, file_name, filter) ==
    IF ~Truthy(results) THEN NoDisplay
    ELSE IF ~({"summary", "findings"} \subseteq results.keys)
    THEN [NoDisplay EXCEPT !.shown = TRUE, !.crashed = TRUE]
    ELSE LET onPage == [results EXCEPT
                            !.findings = filtered_findings(results, filter)]
         IN  [shown         |-> TRUE,
              crashed       |-> FALSE,
              banners       |-> <<RiskBanner(results.summary)>>,
              findings      |-> filtered_findings(results, filter),
              exports       |-> TRUE,
              json_data     |-> JsonExport(onPage),
              report        |-> Report(onPage, file_name),
              reset_button  |-> TRUE,
              filter_widget |-> TRUE]

\* The page below line 219 for the stored results: nothing when there are
\* none; an unhandled KeyError at line 232 when the object has no
\* "summary" (the script stops there); otherwise metrics, one banner, the
\* filtered findings, both exports and the reset button.
Display(results, file_name, filter) ==
    IF ~Truthy(results) THEN NoDisplay
    ELSE IF "summary" \notin results.keys
    THEN [NoDisplay EXCEPT !.shown = TRUE, !.crashed = TRUE]
    ELSE IF "findings" \notin results.keys      \* KeyError at line 280
    THEN [NoDisplay EXCEPT !.shown = TRUE, !.crashed = TRUE,
                           !.banners = <<RiskBanner(results.summary)>>,
                           !.filter_widget = TRUE]
    ELSE [shown         |-> TRUE,
          crashed       |-> FALSE,
          banners       |-> <<RiskBanner(results.summary)>>,
          findings      |-> filtered_findings(results, filter),
          exports       |-> TRUE,
          json_data     |-> JsonExport(results),
          report        |-> Report(results, file_name),
          reset_button  |-> TRUE,
          filter_widget |-> TRUE]

\* mutant: a result already stored is kept
ResultsAfterAnalysis_KeepStored(stored, call, ret) ==
    IF call /\ Truthy(ret.results) /\ ~Truthy(stored) THEN ret.results
    ELSE stored

\* lines 210-213: the stored results after the analysis block
ResultsAfterAnalysis(stored, call, ret) ==
    IF call /\ Truthy(ret.results) THEN ret.results ELSE stored

(***************************************************************************)
(* One execution of the script, lines 14-378.                              *)
(*   ss      st.session_state before the execution                         *)
(*   click   the button whose click caused it: "analyze", "reset", "none"  *)
(*   ret     what analyze_contract_with_claude returns if it is called     *)
(*   t       what datetime.now() returns                                   *)
(***************************************************************************)
Script(ss, key, file, manual, filter, click, ret, t) ==
    LET \* line 155
        file_name == IF file # NoFile THEN Str(file.name)
                     ELSE ss.uploaded_file_name
        read_message == IF file # NoFile THEN ReadFile(file).message ELSE "none"
        contract_text == ContractText(file, manual)
        \* line 207
        analyze == click = "analyze" /\ key # ""
        \* line 208
        call == analyze /\ HasContractText(contract_text)
        \* line 212
        store == call /\ Truthy(ret.results)
        results == ResultsAfterAnalysis(ss.analysis_results, call, ret)
        date == IF store THEN Timestamp(t) ELSE ss.analysis_date
        page == Display(results, file_name, filter)
        \* lines 368-371
        reset == click = "reset" /\ page.reset_button
        messages ==
            ({read_message} \ {"none"})
            \cup (IF key = "" THEN {"need_key"} ELSE {})
            \cup (IF call /\ ret.st_error = "service" THEN {"service_error"} ELSE {})
            \cup (IF call /\ ret.st_error = "json" THEN {"json_error"} ELSE {})
            \cup (IF analyze /\ ~call THEN {"no_text"} ELSE {})
    IN  [analysis_results   |-> IF reset THEN None ELSE results,
         uploaded_file_name |-> IF reset THEN None ELSE file_name,
         analysis_date      |-> date,
         rerun              |-> reset,
         called             |-> call,
         stored             |-> store,
         view |-> [analyze_disabled |-> AnalyzeDisabled(key, file, manual),
                   messages         |-> messages,
                   page             |-> page]]

\* The execution the user sees the end of: st.rerun() (line 371) starts the
\* script again at once, with no button clicked.
Settled(ss, key, file, manual, filter, click, ret, t) ==
    LET first == Script(ss, key, file, manual, filter, click, ret, t)
    IN  IF first.rerun
        THEN Script([analysis_results   |-> first.analysis_results,
                     uploaded_file_name |-> first.uploaded_file_name,
                     analysis_date      |-> first.analysis_date],
                    key, file, manual, DefaultFilter, "none", ret, t)
        ELSE first

SessionState ==
    [analysis_results   |-> analysis_results,
     uploaded_file_name |-> uploaded_file_name,
     analysis_date      |-> analysis_date]

\* error kinds on the page the user is looking at
ErrorsOnPage ==
    (view.messages \ {"need_key"})
        \cup (IF view.page.crashed THEN {"schema_drift"} ELSE {})

\* An interaction: the widgets take their new values and the script runs.
Interact(kind, key, file, manual, filter, click, ret) ==
    \E run \in {Settled(SessionState, key, file, manual, filter, click, ret, now)} :
        /\ api_key' = key
        /\ uploaded_file' = file
        /\ manual_text' = manual
        \* a widget that is not rendered loses its value
        /\ severity_filter' = IF run.view.page.filter_widget /\ ~run.rerun
                               THEN filter ELSE DefaultFilter
        /\ analysis_results' = run.analysis_results
        /\ uploaded_file_name' = run.uploaded_file_name
        /\ analysis_date' = run.analysis_date
        /\ now' = IF run.stored THEN now + 1 ELSE now
        /\ view' = run.view
        /\ lastEvent' = [kind     |-> kind,
                         called   |-> run.called,
                         stored   |-> run.stored,
                         st_error |-> IF run.called THEN ret.st_error ELSE "none",
                         returned |-> IF run.called THEN ret.results ELSE None,
                         after    |-> ErrorsOnPage]
        /\ UNCHANGED extractorVars

NoReturn == [results |-> None, st_error |-> "none"]

EnterApiKey(key) ==
    /\ key # api_key
    /\ Interact("key", key, uploaded_file, manual_text, severity_filter,
                "none", NoReturn)

UploadFile(file) ==
    /\ file # uploaded_file
    /\ Interact("upload", api_key, file, manual_text, severity_filter,
                "none", NoReturn)

RemoveFile ==
    /\ uploaded_file # NoFile
    /\ Interact("remove", api_key, NoFile, manual_text, severity_filter,
                "none", NoReturn)

PasteText(text) ==
    /\ text # manual_text
    /\ Interact("paste", api_key, uploaded_file, text, severity_filter,
                "none", NoReturn)

SelectSeverities(filter) ==
    /\ view.page.filter_widget
    /\ filter # severity_filter
    /\ Interact("filter", api_key, uploaded_file, manual_text, filter,
                "none", NoReturn)

ClickAnalyze(ret) ==
    /\ ~view.analyze_disabled
    /\ now <= MaxClock
    /\ Interact("analyze", api_key, uploaded_file, manual_text,
                severity_filter, "analyze", ret)

ClickReset ==
    /\ view.page.reset_button
    /\ Interact("reset", api_key, uploaded_file, manual_text,
                severity_filter, "reset", NoReturn)

ClickDownload ==
    /\ view.page.exports
    /\ Interact("download", api_key, uploaded_file, manual_text,
                severity_filter, "none", NoReturn)

ApiKeys == {"", "sk-ant-key"}
PastedTexts == {"", "AGREEMENT"}

\* lines 14-18, then the first execution of the script
InitSession ==
    /\ api_key = ""
    /\ uploaded_file = NoFile
    /\ manual_text = ""
    /\ severity_filter = DefaultFilter
    /\ analysis_results = None
    /\ uploaded_file_name = None
    /\ analysis_date = Absent
    /\ now = 1
    /\ view = Script([analysis_results |-> None, uploaded_file_name |-> None,
                      analysis_date |-> Absent],
                     "", NoFile, "", DefaultFilter, "none", NoReturn, 1).view
    /\ lastEvent = [kind |-> "start", called |-> FALSE, stored |-> FALSE,
                    st_error |-> "none", returned |-> None, after |-> {}]

ExtractorIdle ==
    /\ completion = <<>>
    /\ response_text = <<>>
    /\ extractor_pc = "idle"

Init == InitSession /\ ExtractorIdle

Next ==
    \/ \E key \in ApiKeys : EnterApiKey(key)
    \/ \E file \in Files : UploadFile(file)
    \/ RemoveFile
    \/ \E text \in PastedTexts : PasteText(text)
    \/ \E filter \in SUBSET Severities : SelectSeverities(filter)
    \/ \E ret \in AnalysisReturns : ClickAnalyze(ret)
    \/ ClickReset
    \/ ClickDownload

Spec == Init /\ [][Next]_vars

(***************************************************************************)
(* The response extractor on its own: every completion text, then lines    *)
(* 121-128, which assign the candidate to response_text.                   *)
(***************************************************************************)
InitExtract ==
    /\ InitSession
    /\ completion \in Texts
    /\ response_text = completion
    /\ extractor_pc = "received"

ExtractJSON ==
    /\ extractor_pc = "received"
    /\ response_text' = ExtractCandidate(response_text)
    /\ extractor_pc' = "extracted"
    /\ UNCHANGED <<completion, sessionVars>>

NextExtract == ExtractJSON

SpecExtract == InitExtract /\ [][NextExtract]_vars

(***************************************************************************)
(* The display block on its own: a session in which an analysis of pasted  *)
(* text has just stored an object of the shape the prompt asks for, with   *)
(* any counts and any findings; the user then filters and downloads.       *)
(***************************************************************************)
FindingsLists ==
    UNION {{[i \in 1..n |-> Finding(sevs[i], i)] : sevs \in [1..n -> AnySeverity]}
           : n \in 0..MaxFindings}

ShapedResults ==
    {Result(Summary(c, w, 0, c + w), fs) :
        c \in 0..MaxCritical, w \in 0..MaxWarning, fs \in FindingsLists}

InitRender ==
    /\ api_key = "sk-ant-key"
    /\ uploaded_file = NoFile
    /\ manual_text = "AGREEMENT"
    /\ severity_filter = DefaultFilter
    /\ analysis_results \in ShapedResults
    /\ uploaded_file_name = None
    /\ analysis_date = Timestamp(1)
    /\ now = 2
    /\ view = Script([analysis_results |-> None, uploaded_file_name |-> None,
                      analysis_date |-> Absent],
                     api_key, uploaded_file, manual_text, severity_filter,
                     "analyze",
                     [results |-> analysis_results, st_error |-> "none"], 1).view
    /\ lastEvent = [kind |-> "analyze", called |-> TRUE, stored |-> TRUE,
                    st_error |-> "none", returned |-> analysis_results,
                    after |-> {}]
    /\ ExtractorIdle

NextRender ==
    \/ \E filter \in SUBSET Severities : SelectSeverities(filter)
    \/ ClickDownload

SpecRender == InitRender /\ [][NextRender]_vars

(***************************************************************************)
(* Properties.                                                             *)
(***************************************************************************)
\* an object of the shape the prompt asks for
Shaped(v) == v.type = "dict" /\ {"summary", "findings"} \subseteq v.keys

\* the contract text of the current inputs is usable
ValidTextAvailable ==
    HasContractText(ContractText(uploaded_file, manual_text))

\* C1: after an analysis attempt whose completion text cannot be parsed as
\* JSON, the current analysis result is unset, whatever was stored before.
C1_UnsetAfterParseFailure ==
    (lastEvent.kind = "analyze" /\ lastEvent.st_error = "json")
        => analysis_results = None

\* the positions (0-based) at which pat occurs in t, from position from on
Occurrences(t, pat, from) ==
    {i \in from..(Len(t) - Len(pat)) : SubSeq(t, i + 1, i + Len(pat)) = pat}

Least(S) == CHOOSE i \in S : \A j \in S : i <= j
Greatest(S) == CHOOSE i \in S : \A j \in S : j <= i

\* t without its leading and trailing whitespace
Trimmed(t) ==
    LET solid == {k \in 1..Len(t) : t[k] \notin Whitespace}
    IN  IF solid = {} THEN <<>> ELSE SubSeq(t, Least(solid), Greatest(solid))

\* where the candidate starts: after the tag of the first tagged fence if
\* there is one, else after the first fence (-1: the text has no fence)
CandidateStart(t) ==
    IF Occurrences(t, TaggedFence, 0) # {}
    THEN Least(Occurrences(t, TaggedFence, 0)) + Len(TaggedFence)
    ELSE IF Occurrences(t, Fence, 0) # {}
    THEN Least(Occurrences(t, Fence, 0)) + Len(Fence)
    ELSE -1

\* C2: the candidate is chosen by the three-tier fallback: after the tag of
\* the first tagged fence up to the next fence, trimmed; with no tagged
\* fence, between the first fence and the next one, trimmed; with no fence,
\* the entire text.  (The text closes the fence it opens; C10 is the case
\* in which it does not.)
C2_ThreeTierFallback ==
    extractor_pc = "extracted" =>
        LET start == CandidateStart(completion)
        IN  IF start = -1 THEN response_text = completion
            ELSE LET closing == Occurrences(completion, Fence, start)
                 IN  closing # {} =>
                        response_text =
                            Trimmed(SubSeq(completion, start + 1, Least(closing)))

\* C2 witness: a bare fence comes before the tagged fence, and the candidate
\* is the document after the tag.
C2_Witness ==
    /\ extractor_pc = "extracted"
    /\ Occurrences(completion, TaggedFence, 0) # {}
    /\ Least(Occurrences(completion, Fence, 0))
           < Least(Occurrences(completion, TaggedFence, 0))
    /\ Occurrences(completion, Fence, CandidateStart(completion)) # {}
    /\ response_text = Doc("B1")

\* C10: with an opening fence and no closing fence after it, the candidate
\* is the whole remainder of the text after the opening fence, trimmed.
C10_RemainderWhenUnclosed ==
    extractor_pc = "extracted" =>
        LET start == CandidateStart(completion)
        IN  (start # -1 /\ Occurrences(completion, Fence, start) = {}) =>
                response_text =
                    Trimmed(SubSeq(completion, start + 1, Len(completion)))

\* C3 as stated: whenever no valid contract text is available, the analyze
\* button is disabled.
C3_DisabledWithoutValidText ==
    ~ValidTextAvailable => view.analyze_disabled

\* C3 amended: the button is disabled exactly when there is no API key or
\* there is neither an uploaded file nor pasted text; an uploaded file that
\* produced no text leaves it enabled, and firing it then calls no analysis,
\* stores nothing and shows the "upload a valid contract" error.
C3_DisabledWithoutInput ==
    /\ view.analyze_disabled <=>
           (api_key = "" \/ (uploaded_file = NoFile /\ manual_text = ""))
    /\ (lastEvent.kind = "analyze" /\ ~ValidTextAvailable) =>
           /\ ~lastEvent.called
           /\ ~lastEvent.stored
           /\ "no_text" \in view.messages

\* C3 witness: the button was fired with a PDF uploaded and nothing pasted.
C3_Witness ==
    /\ lastEvent.kind = "analyze"
    /\ uploaded_file # NoFile
    /\ manual_text = ""
    /\ ReadFile(uploaded_file).message = "pdf_warning"
    /\ "no_text" \in view.messages
    /\ ~lastEvent.called

\* C4: at session start and after the reset button, the current result, the
\* uploaded file name and the analysis timestamp are all empty.
C4_ResetClearsSession ==
    lastEvent.kind \in {"start", "reset"} =>
        /\ analysis_results = None
        /\ uploaded_file_name = None
        /\ analysis_date = Absent

\* C5: whatever errors came before, the inputs can be changed, the analyze
\* button can be fired once a key and text are present, and an analysis that
\* returns an object of the expected shape has that object stored and
\* displayed: metrics, one banner, findings, exports.
C5_Recoverable ==
    /\ ENABLED (\E key \in ApiKeys : EnterApiKey(key))
    /\ ENABLED (\E text \in PastedTexts : PasteText(text))
    /\ ENABLED (\E file \in Files : UploadFile(file))
    /\ (api_key # "" /\ manual_text # "") => ~view.analyze_disabled
    /\ (lastEvent.kind = "analyze" /\ lastEvent.called
            /\ Shaped(lastEvent.returned)) =>
           /\ analysis_results = lastEvent.returned
           /\ view.page.shown /\ ~view.page.crashed
           /\ Len(view.page.banners) = 1
           /\ view.page.exports
           /\ view.page.json_data.findings = lastEvent.returned.findings

\* C5 witness: the page had crashed on an object without a summary, and the
\* next analysis is displayed.
C5_Witness ==
    /\ lastEvent.kind = "analyze"
    /\ "schema_drift" \in lastEvent.after
    /\ Shaped(lastEvent.returned)
    /\ analysis_results = lastEvent.returned
    /\ view.page.exports

\* an uploaded file that is empty or is not UTF-8
InputError(file) ==
    /\ file # NoFile
    /\ \/ ReadFile(file).message = "read_error"
       \/ ReadFile(file).contract_text = Str("")

\* C6: uploading a file that is empty or cannot be decoded changes no
\* session state.
C6_InputErrorChangesNothing ==
    [][(lastEvent'.kind = "upload" /\ InputError(uploaded_file'))
          => UNCHANGED <<analysis_results, uploaded_file_name, analysis_date>>]_vars

\* the k-th smallest element of a set of integers
Kth(S, k) == CHOOSE i \in S : Cardinality({j \in S : j <= i}) = k

\* C7, the view: the findings shown are exactly the stored findings whose severity is
\* selected, in stored order (so with all three selected, every finding of
\* the three severities), and a change of the filter leaves the stored
\* result as it was.
C7_FilteredInOrder ==
    view.page.exports =>
        LET all   == analysis_results.findings
            shown == view.page.findings
            keep  == {i \in 1..Len(all) : all[i].severity \in severity_filter}
        IN  /\ Len(shown) = Cardinality(keep)
            /\ \A k \in 1..Len(shown) : shown[k] = all[Kth(keep, k)]

\* C7 (both parts): the filtered view at every state, and the stored result
\* untouched by every change of the filter.
C7_FilterIsView ==
    /\ []C7_FilteredInOrder
    /\ [][lastEvent'.kind = "filter" => analysis_results' = analysis_results]_vars

\* C7 witness: a filter hides some findings and shows others.
C7_Witness ==
    /\ lastEvent.kind = "filter"
    /\ view.page.exports
    /\ view.page.findings # <<>>
    /\ Len(view.page.findings) < Len(analysis_results.findings)

\* C8: under every filter the text report has one entry per stored finding,
\* numbered from 1 in stored order, each finding once, and the JSON export
\* holds all findings.
C8_ExportsUnfiltered ==
    view.page.exports =>
        LET all     == analysis_results.findings
            entries == view.page.report.entries
        IN  /\ Len(entries) = Len(all)
            /\ \A i \in 1..Len(all) :
                  /\ entries[i].idx = i
                  /\ entries[i].issue = all[i].issue
                  /\ entries[i].severity = Upper(all[i].severity)
                  /\ Cardinality({k \in 1..Len(entries) :
                                    entries[k].issue = all[i].issue}) = 1
            /\ view.page.json_data.findings = all
            /\ view.page.json_data.summary = analysis_results.summary

\* C8 witness: nothing is selected, no finding is shown, and the report
\* lists both findings.
C8_Witness ==
    /\ severity_filter = {}
    /\ view.page.exports
    /\ view.page.findings = <<>>
    /\ Len(analysis_results.findings) = 2
    /\ Len(view.page.report.entries) = 2

\* C9: one banner, chosen from the critical and warning counts: critical > 0
\* is high; else warning > 3 is moderate; else low.
C9_RiskBanner ==
    (view.page.shown /\ ~view.page.crashed) =>
        LET c == analysis_results.summary.critical
            w == analysis_results.summary.warning
            banner == view.page.banners[1]
        IN  /\ Len(view.page.banners) = 1
            /\ c > 0 => banner = "high"
            /\ (c <= 0 /\ w > 3) => banner = "moderate"
            /\ (c <= 0 /\ w <= 3) => banner = "low"
            /\ (c = 0 /\ w = 0) => banner = "low"
            /\ (c = 0 /\ w = 3) => banner = "low"
            /\ (c = 0 /\ w = 4) => banner = "moderate"
            /\ (c = 1 /\ w = 0) => banner = "high"
            /\ (c = 2 /\ w = 10) => banner = "high"

\* C9 witness: two critical findings and ten warnings, high risk, on a page
\* rendered again after a change of the filter.
C9_Witness ==
    /\ lastEvent.kind = "filter"
    /\ view.page.shown
    /\ analysis_results.summary.critical = 2
    /\ analysis_results.summary.warning = 10
    /\ view.page.banners = <<"high">>

====
